---- MODULE Spec2Model ----
(***************************************************************************)
(* Dump and restore of the update store                                    *)
(* (meilisearch-http/src/index_controller/update_actor/store/dump.rs).     *)
(*                                                                         *)
(* The live store holds a pending collection keyed (global id, uuid,       *)
(* update id) and a completed collection keyed (uuid, update id).  dump    *)
(* takes the state lock, swaps the state to Dumping, opens a transaction   *)
(* of the environment, writes data.jsonl and update_files/, calls the      *)
(* index actor once per uuid and swaps the state back to Idle.  load_dump  *)
(* replays a bundle into a new store inside one write transaction.         *)
(***************************************************************************)
EXTENDS Integers, Sequences, FiniteSets, TLC

\* ---------------------------------------------------------------- bounds
MaxUuid == 2        \* index uuids are 1..MaxUuid, ordered as their bytes are
MaxUpdates == 2     \* updates ever registered in the live store
NumDumps == 2       \* calls of dump issued on the live store

Uuids == 1..MaxUuid
Dumps == { <<"dump", i>> : i \in 1..NumDumps }
NoOne == <<"none", 0>>      \* nobody holds the lock
Writer == <<"writer", 0>>   \* the process that registers and processes updates

\* ----------------------------------------------------------------- paths
\* A path is the sequence of its components; <<>> is the root "/".
Root == <<>>
ContentPaths == { <<"a", "x">>, <<"b", "x">>, Root }
NoContent == <<"-none-">>          \* Option::None of update.content
Contents == ContentPaths \cup {NoContent}

\* bytes of the content files of the live store (the root is no file)
InitialFiles == { <<"a", "x">> } \X {1} \cup { <<"b", "x">> } \X {2}

\* Path::file_name: the last component, None for a path without one
HasFileName(p) == Len(p) > 0
FileName(p) == p[Len(p)]
\* Path::join of a directory and a relative path
Join(dir, rel) == dir \o rel

\* a set of <<path, bytes>> pairs as a file system
Exists(fs, p) == \E f \in fs : f[1] = p
Bytes(fs, p) == (CHOOSE f \in fs : f[1] = p)[2]
\* fs::copy into a directory tree: creates or overwrites the target
CopyInto(fs, p, b) == { f \in fs : f[1] # p } \cup { <<p, b>> }

VARIABLES
    state,          \* self.state data: "Idle" or "Dumping"
    stateLock,      \* holder of the guard returned by self.state.write()
    envWriter,      \* holder of the write transaction of self.env
    pending_queue,  \* committed pending collection of the live store
    updates,        \* committed completed collection of the live store
    files,          \* content files of the live store
    wpc,            \* the writer: "idle", "waiting" or "txn"
    pc,             \* pc[d]: position of dump call d
    uuids,          \* uuids[d]: the filter set of dump call d
    txn,            \* txn[d]: what the transaction of dump d reads
    pos,            \* pos[d]: entries of the current pass already visited
    todo,           \* todo[d]: uuids dump_indexes has still to visit
    dataFile,       \* dataFile[d]: lines of <path>/updates/data.jsonl
    updateFiles,    \* updateFiles[d]: <path>/updates/update_files/
    dirs,           \* dirs[d]: directories existing under the dump path
    handleCalls,    \* handleCalls[d]: uuids handle.dump was called with
    result,         \* result[d]: "none", "Ok" or "Err"
    errAt,          \* errAt[d]: the position at which dump d met its error
    found,          \* found[d]: the state that swap(State::Dumping) replaced
    lpc,            \* position of the call of load_dump
    lsrc,           \* the dump whose path is the src of load_dump
    lpos,           \* lines of data.jsonl load_dump has read
    wtxn,           \* raw updates registered in the write transaction of load_dump
    newStore,       \* raw updates committed in the store at dst
    dstFiles,       \* files under dst/updates/update_files/
    lresult,        \* result of load_dump: "none", "Ok" or "Err"
    lerr            \* the error load_dump has met: "none", "io", "read", "json"

storeVars == <<pending_queue, updates, files>>
lockVars == <<state, stateLock, envWriter>>
dumpVars == <<pc, uuids, txn, pos, todo, dataFile, updateFiles, dirs,
              handleCalls, result, errAt, found>>
loadVars == <<lpc, lsrc, lpos, wtxn, newStore, dstFiles, lresult, lerr>>
vars == <<storeVars, lockVars, wpc, dumpVars, loadVars>>

\* ------------------------------------------------------ the two collections
\* pending entry: key (gid, uuid, id), data: the Enqueued update with its content
\* completed entry: key (uuid, id), data: the update with its final status
Statuses == {"Processed", "Failed"}

PendingKeyLess(a, b) ==
    \/ a.gid < b.gid
    \/ a.gid = b.gid /\ a.uuid < b.uuid
    \/ a.gid = b.gid /\ a.uuid = b.uuid /\ a.id < b.id

UpdateKeyLess(a, b) ==
    \/ a.uuid < b.uuid
    \/ a.uuid = b.uuid /\ a.id < b.id

\* as PendingIter, from the last key to the first: pending_queue.rev_iter(txn)
RECURSIVE PendingRevIter(_)
PendingRevIter(S) ==
    IF S = {} THEN <<>>
    ELSE LET m == CHOOSE a \in S : \A b \in S \ {a} : PendingKeyLess(b, a)
         IN <<m>> \o PendingRevIter(S \ {m})

\* pending_queue.iter(txn): the entries in key order
RECURSIVE PendingIter(_)
PendingIter(S) ==
    IF S = {} THEN <<>>
    ELSE LET m == CHOOSE a \in S : \A b \in S \ {a} : PendingKeyLess(a, b)
         IN <<m>> \o PendingIter(S \ {m})

\* updates.iter(txn).remap_key_type::<UpdateKeyCodec>(): the entries in key order
RECURSIVE UpdatesIter(_)
UpdatesIter(S) ==
    IF S = {} THEN <<>>
    ELSE LET m == CHOOSE a \in S : \A b \in S \ {a} : UpdateKeyLess(a, b)
         IN <<m>> \o UpdatesIter(S \ {m})

Registered == Cardinality(pending_queue) + Cardinality(updates)
NextUpdateId(u) == Cardinality({ e \in pending_queue \cup updates : e.uuid = u })

NoTxn == [open |-> FALSE, pending |-> {}, updates |-> {}]

\* ------------------------------------------------------------------- Init
Init ==
    /\ state = "Idle"
    /\ stateLock = NoOne
    /\ envWriter = NoOne
    /\ pending_queue = {}
    /\ updates = {}
    /\ files = InitialFiles
    /\ wpc = "idle"
    /\ pc = [d \in Dumps |-> "start"]
    /\ uuids = [d \in Dumps |-> {}]
    /\ txn = [d \in Dumps |-> NoTxn]
    /\ pos = [d \in Dumps |-> 0]
    /\ todo = [d \in Dumps |-> {}]
    /\ dataFile = [d \in Dumps |-> <<>>]
    /\ updateFiles = [d \in Dumps |-> {}]
    /\ dirs = [d \in Dumps |-> {}]
    /\ handleCalls = [d \in Dumps |-> <<>>]
    /\ result = [d \in Dumps |-> "none"]
    /\ errAt = [d \in Dumps |-> "none"]
    /\ found = [d \in Dumps |-> "none"]
    /\ lpc = "start"
    /\ lsrc = NoOne
    /\ lpos = 0
    /\ wtxn = <<>>
    /\ newStore = <<>>
    /\ dstFiles = {}
    /\ lresult = "none"
    /\ lerr = "none"

\* ------------------------------------------------------------- the writer
\* The update loop of the store: every change of the two collections is made
\* inside a write transaction of the environment, of which there is one at a time.
WriterRequest ==
    /\ wpc = "idle"
    /\ Registered < MaxUpdates \/ pending_queue # {}
    /\ wpc' = "waiting"
    /\ UNCHANGED <<storeVars, lockVars, dumpVars, loadVars>>

WriterBegin ==
    /\ wpc = "waiting"
    /\ envWriter = NoOne
    /\ envWriter' = Writer
    /\ wpc' = "txn"
    /\ UNCHANGED <<storeVars, state, stateLock, dumpVars, loadVars>>

\* register an update for index u with content c, and commit
WriterRegister(u, c) ==
    /\ wpc = "txn"
    /\ Registered < MaxUpdates
    /\ pending_queue' = pending_queue \cup
          { [gid |-> Registered, uuid |-> u, id |-> NextUpdateId(u), content |-> c] }
    /\ envWriter' = NoOne
    /\ wpc' = "idle"
    /\ UNCHANGED <<updates, files, state, stateLock, dumpVars, loadVars>>

\* move the first pending update to the completed collection, and commit
WriterProcess(st) ==
    /\ wpc = "txn"
    /\ pending_queue # {}
    /\ LET first == PendingIter(pending_queue)[1]
       IN /\ pending_queue' = pending_queue \ {first}
          /\ updates' = updates \cup
                { [uuid |-> first.uuid, id |-> first.id, status |-> st] }
    /\ envWriter' = NoOne
    /\ wpc' = "idle"
    /\ UNCHANGED <<files, state, stateLock, dumpVars, loadVars>>

\* ---------------------------------------------------------- the dump file
\* UpdateEntry { uuid, update }: update is an UpdateStatus, with the content
\* reference an Enqueued update may carry
Entry(u, tag, id, c) ==
    [uuid |-> u, update |-> [tag |-> tag, id |-> id, content |-> c]]

\* serde_json::to_writer(&mut file, &update_json): the line of an entry, its
\* fields one after the other
ToJson(e) == <<e.uuid, e.update.tag, e.update.id, e.update.content>>
JsonFields == 4
\* what is left in the file when the write stops half way
Truncated(line) == SubSeq(line, 1, 2)
\* serde_json::from_str(&line): fails on a line that is no whole entry
WellFormed(line) == Len(line) = JsonFields
FromJson(line) == Entry(line[1], line[2], line[3], line[4])

\* as Selected, the test of the uuid left out
SelectedUnfiltered(d, e) == TRUE

\* uuids.contains(&uuid)
Selected(d, e) == e.uuid \in uuids[d]

\* dump_update_file(file_path, dump_path): the file name of file_path, the
\* file copied under that name into dump_path
DumpUpdateFileOk(file_path) == HasFileName(file_path) /\ Exists(files, file_path)
\* as DumpUpdateFileName, the directories of the path kept
DumpUpdateFilePathKept(file_path) == file_path
DumpUpdateFileName(file_path) == <<FileName(file_path)>>
DumpUpdateFileCopy(dump_dir, file_path) ==
    CopyInto(dump_dir, DumpUpdateFileName(file_path), Bytes(files, file_path))

\* -------------------------------------------------------------------- dump
\* An error leaves dump through `?`: the locals are dropped, that is the
\* transaction is aborted and the guard of the state lock released.  The state
\* itself is only written by the two calls of swap.
Return(d, res) ==
    /\ pc' = [pc EXCEPT ![d] = "done"]
    /\ result' = [result EXCEPT ![d] = res]
    /\ txn' = [txn EXCEPT ![d].open = FALSE]
    /\ envWriter' = IF envWriter = d THEN NoOne ELSE envWriter
    /\ stateLock' = NoOne

Fail(d) ==
    /\ Return(d, "Err")
    /\ errAt' = [errAt EXCEPT ![d] = pc[d]]

\* self.state.write() returns once no other guard of the state lock is alive
StateWriteFree == stateLock = NoOne

\* as DumpStateWrite, the write transaction opened before the state lock is
\* asked for
DumpStateWriteAfterTxn(d, U) ==
    /\ pc[d] = "start"
    /\ IF envWriter # d
       THEN /\ envWriter = NoOne
            /\ envWriter' = d
            /\ txn' = [txn EXCEPT ![d] = [open |-> TRUE,
                                          pending |-> pending_queue,
                                          updates |-> updates]]
            /\ UNCHANGED <<stateLock, uuids, pc>>
       ELSE /\ StateWriteFree
            /\ stateLock' = d
            /\ uuids' = [uuids EXCEPT ![d] = U]
            /\ pc' = [pc EXCEPT ![d] = "locked"]
            /\ UNCHANGED <<envWriter, txn>>
    /\ UNCHANGED <<storeVars, loadVars, state, wpc, pos, todo,
                   dataFile, updateFiles, dirs, handleCalls, result, errAt, found>>

\* let state_lock = self.state.write();
DumpStateWrite(d, U) ==
    /\ pc[d] = "start"
    /\ StateWriteFree
    /\ stateLock' = d
    /\ uuids' = [uuids EXCEPT ![d] = U]
    /\ pc' = [pc EXCEPT ![d] = "locked"]
    /\ UNCHANGED <<storeVars, loadVars, state, envWriter, wpc, txn, pos, todo,
                   dataFile, updateFiles, dirs, handleCalls, result, errAt, found>>

\* as DumpSwapDumping, the guard being a temporary dropped at the end of the
\* statement: self.state.write().swap(State::Dumping);
DumpSwapDumpingUnguarded(d) ==
    /\ pc[d] = "locked"
    /\ state' = "Dumping"
    /\ found' = [found EXCEPT ![d] = state]
    /\ stateLock' = NoOne
    /\ pc' = [pc EXCEPT ![d] = "dumping"]
    /\ UNCHANGED <<storeVars, loadVars, envWriter, wpc, uuids, txn, pos, todo,
                   dataFile, updateFiles, dirs, handleCalls, result, errAt>>

\* state_lock.swap(State::Dumping);
DumpSwapDumping(d) ==
    /\ pc[d] = "locked"
    /\ state' = "Dumping"
    /\ found' = [found EXCEPT ![d] = state]
    /\ pc' = [pc EXCEPT ![d] = "dumping"]
    /\ UNCHANGED <<storeVars, loadVars, stateLock, envWriter, wpc, uuids, txn, pos, todo,
                   dataFile, updateFiles, dirs, handleCalls, result, errAt>>

\* as DumpWriteTxn, with a read transaction, which leaves the write
\* transaction of the environment to the writer: self.env.read_txn()?
DumpReadTxn(d, ok) ==
    /\ pc[d] = "dumping"
    /\ IF ok
       THEN /\ txn' = [txn EXCEPT ![d] = [open |-> TRUE,
                                          pending |-> pending_queue,
                                          updates |-> updates]]
            /\ pc' = [pc EXCEPT ![d] = "txn"]
            /\ UNCHANGED <<stateLock, envWriter, result, errAt>>
       ELSE Fail(d)
    /\ UNCHANGED <<storeVars, loadVars, state, wpc, uuids, found, pos, todo,
                   dataFile, updateFiles, dirs, handleCalls>>

\* let txn = self.env.write_txn()?;
DumpWriteTxn(d, ok) ==
    /\ pc[d] = "dumping"
    /\ IF ok
       THEN /\ envWriter = NoOne
            /\ envWriter' = d
            /\ txn' = [txn EXCEPT ![d] = [open |-> TRUE,
                                          pending |-> pending_queue,
                                          updates |-> updates]]
            /\ pc' = [pc EXCEPT ![d] = "txn"]
            /\ UNCHANGED <<stateLock, result, errAt>>
       ELSE Fail(d)
    /\ UNCHANGED <<storeVars, loadVars, state, wpc, uuids, found, pos, todo, dataFile,
                   updateFiles, dirs, handleCalls>>

\* create_dir_all(&dump_path)?;
DumpCreateDir(d, ok) ==
    /\ pc[d] = "txn"
    /\ IF ok
       THEN /\ dirs' = [dirs EXCEPT ![d] = @ \cup {"updates"}]
            /\ pc' = [pc EXCEPT ![d] = "updates"]
            /\ UNCHANGED <<stateLock, envWriter, txn, result, errAt>>
       ELSE Fail(d) /\ UNCHANGED dirs
    /\ UNCHANGED <<storeVars, loadVars, state, wpc, uuids, found, pos, todo, dataFile,
                   updateFiles, handleCalls>>

\* dump_updates: let mut dump_data_file = File::create(dump_data_path)?;
DumpCreateDataFile(d, ok) ==
    /\ pc[d] = "updates"
    /\ IF ok
       THEN /\ dirs' = [dirs EXCEPT ![d] = @ \cup {"data.jsonl"}]
            /\ dataFile' = [dataFile EXCEPT ![d] = <<>>]
            /\ pc' = [pc EXCEPT ![d] = "data"]
            /\ UNCHANGED <<stateLock, envWriter, txn, result, errAt>>
       ELSE Fail(d) /\ UNCHANGED <<dirs, dataFile>>
    /\ UNCHANGED <<storeVars, loadVars, state, wpc, uuids, found, pos, todo, updateFiles,
                   handleCalls>>

\* dump_updates: create_dir_all(&update_files_path)?;
DumpCreateUpdateFiles(d, ok) ==
    /\ pc[d] = "data"
    /\ IF ok
       THEN /\ dirs' = [dirs EXCEPT ![d] = @ \cup {"update_files"}]
            /\ pc' = [pc EXCEPT ![d] = "pending"]
            /\ pos' = [pos EXCEPT ![d] = 0]
            /\ UNCHANGED <<stateLock, envWriter, txn, result, errAt>>
       ELSE Fail(d) /\ UNCHANGED <<dirs, pos>>
    /\ UNCHANGED <<storeVars, loadVars, state, wpc, uuids, found, todo, dataFile, updateFiles,
                   handleCalls>>

Outcomes == {"ok", "ioerr", "writeerr"}

\* as DumpPending, a record whose content cannot be copied left out of the dump
\* and the loop continued
DumpPendingBadFileSkipped(d, out) ==
    /\ pc[d] = "pending"
    /\ LET it == PendingIter(txn[d].pending)
       IN IF pos[d] = Len(it)
          THEN /\ out = "ok"
               /\ pc' = [pc EXCEPT ![d] = "completed"]
               /\ pos' = [pos EXCEPT ![d] = 0]
               /\ UNCHANGED <<stateLock, envWriter, txn, result, errAt, dataFile,
                              updateFiles>>
          ELSE LET e == it[pos[d] + 1]
                   hasContent == e.content # NoContent
                   content == IF hasContent THEN DumpUpdateFileName(e.content)
                                            ELSE NoContent
                   line == ToJson(Entry(e.uuid, "Enqueued", e.id, content))
               IN CASE out = "ioerr" ->
                         /\ Fail(d)
                         /\ UNCHANGED <<pos, dataFile, updateFiles>>
                    [] out # "ioerr" /\ ~Selected(d, e) ->
                         /\ out = "ok"
                         /\ pos' = [pos EXCEPT ![d] = @ + 1]
                         /\ UNCHANGED <<pc, stateLock, envWriter, txn, result, errAt,
                                        dataFile, updateFiles>>
                    [] out # "ioerr" /\ Selected(d, e)
                         /\ hasContent /\ ~DumpUpdateFileOk(e.content) ->
                         /\ out = "ok"
                         /\ pos' = [pos EXCEPT ![d] = @ + 1]
                         /\ UNCHANGED <<pc, stateLock, envWriter, txn, result, errAt,
                                        dataFile, updateFiles>>
                    [] OTHER ->
                         /\ updateFiles' =
                              IF hasContent
                              THEN [updateFiles EXCEPT ![d] =
                                      DumpUpdateFileCopy(@, e.content)]
                              ELSE updateFiles
                         /\ IF out = "writeerr"
                            THEN /\ dataFile' = [dataFile EXCEPT ![d] =
                                                   Append(@, Truncated(line))]
                                 /\ Fail(d)
                                 /\ UNCHANGED pos
                            ELSE /\ dataFile' = [dataFile EXCEPT ![d] =
                                                   Append(@, line)]
                                 /\ pos' = [pos EXCEPT ![d] = @ + 1]
                                 /\ UNCHANGED <<pc, stateLock, envWriter, txn,
                                                result, errAt>>
    /\ UNCHANGED <<storeVars, loadVars, state, wpc, uuids, found, todo, dirs, handleCalls>>

\* as DumpPending, the content file moved into the dump with std::fs::rename
\* where the code copies it
DumpPendingMovesFile(d, out) ==
    /\ pc[d] = "pending"
    /\ LET it == PendingIter(txn[d].pending)
       IN IF pos[d] = Len(it)
          THEN /\ out = "ok"
               /\ pc' = [pc EXCEPT ![d] = "completed"]
               /\ pos' = [pos EXCEPT ![d] = 0]
               /\ UNCHANGED <<stateLock, envWriter, txn, result, errAt, dataFile,
                              updateFiles>>
          ELSE LET e == it[pos[d] + 1]
                   hasContent == e.content # NoContent
                   content == IF hasContent THEN DumpUpdateFileName(e.content)
                                            ELSE NoContent
                   line == ToJson(Entry(e.uuid, "Enqueued", e.id, content))
               IN CASE out = "ioerr" ->
                         /\ Fail(d)
                         /\ UNCHANGED <<pos, dataFile, updateFiles>>
                    [] out # "ioerr" /\ ~Selected(d, e) ->
                         /\ out = "ok"
                         /\ pos' = [pos EXCEPT ![d] = @ + 1]
                         /\ UNCHANGED <<pc, stateLock, envWriter, txn, result, errAt,
                                        dataFile, updateFiles>>
                    [] out # "ioerr" /\ Selected(d, e)
                         /\ hasContent /\ ~DumpUpdateFileOk(e.content) ->
                         /\ out = "ok"
                         /\ Fail(d)
                         /\ UNCHANGED <<pos, dataFile, updateFiles>>
                    [] OTHER ->
                         /\ updateFiles' =
                              IF hasContent
                              THEN [updateFiles EXCEPT ![d] =
                                      DumpUpdateFileCopy(@, e.content)]
                              ELSE updateFiles
                         /\ IF out = "writeerr"
                            THEN /\ dataFile' = [dataFile EXCEPT ![d] =
                                                   Append(@, Truncated(line))]
                                 /\ Fail(d)
                                 /\ UNCHANGED pos
                            ELSE /\ dataFile' = [dataFile EXCEPT ![d] =
                                                   Append(@, line)]
                                 /\ pos' = [pos EXCEPT ![d] = @ + 1]
                                 /\ UNCHANGED <<pc, stateLock, envWriter, txn,
                                                result, errAt>>
    /\ files' =
          IF /\ pos[d] < Len(PendingIter(txn[d].pending))
             /\ out # "ioerr"
             /\ Selected(d, PendingIter(txn[d].pending)[pos[d] + 1])
             /\ PendingIter(txn[d].pending)[pos[d] + 1].content # NoContent
             /\ DumpUpdateFileOk(PendingIter(txn[d].pending)[pos[d] + 1].content)
          THEN { f \in files :
                   f[1] # PendingIter(txn[d].pending)[pos[d] + 1].content }
          ELSE files
    /\ UNCHANGED <<pending_queue, updates, loadVars, state, wpc, uuids, found, todo,
                   dirs, handleCalls>>

\* dump_pending, one turn of `for pending in pendings`.  out is what the
\* environment does to this turn: "ioerr" fails the read or the decoding of the
\* entry, "writeerr" stops the write of its line half way.
DumpPending(d, out) ==
    /\ pc[d] = "pending"
    /\ LET it == PendingIter(txn[d].pending)
       IN IF pos[d] = Len(it)
          THEN /\ out = "ok"
               /\ pc' = [pc EXCEPT ![d] = "completed"]
               /\ pos' = [pos EXCEPT ![d] = 0]
               /\ UNCHANGED <<stateLock, envWriter, txn, result, errAt, dataFile,
                              updateFiles>>
          ELSE LET e == it[pos[d] + 1]
                   hasContent == e.content # NoContent
                   content == IF hasContent THEN DumpUpdateFileName(e.content)
                                            ELSE NoContent
                   line == ToJson(Entry(e.uuid, "Enqueued", e.id, content))
               IN CASE out = "ioerr" ->
                         /\ Fail(d)
                         /\ UNCHANGED <<pos, dataFile, updateFiles>>
                    [] out # "ioerr" /\ ~Selected(d, e) ->
                         /\ out = "ok"
                         /\ pos' = [pos EXCEPT ![d] = @ + 1]
                         /\ UNCHANGED <<pc, stateLock, envWriter, txn, result, errAt,
                                        dataFile, updateFiles>>
                    [] out # "ioerr" /\ Selected(d, e)
                         /\ hasContent /\ ~DumpUpdateFileOk(e.content) ->
                         /\ out = "ok"
                         /\ Fail(d)
                         /\ UNCHANGED <<pos, dataFile, updateFiles>>
                    [] OTHER ->
                         /\ updateFiles' =
                              IF hasContent
                              THEN [updateFiles EXCEPT ![d] =
                                      DumpUpdateFileCopy(@, e.content)]
                              ELSE updateFiles
                         /\ IF out = "writeerr"
                            THEN /\ dataFile' = [dataFile EXCEPT ![d] =
                                                   Append(@, Truncated(line))]
                                 /\ Fail(d)
                                 /\ UNCHANGED pos
                            ELSE /\ dataFile' = [dataFile EXCEPT ![d] =
                                                   Append(@, line)]
                                 /\ pos' = [pos EXCEPT ![d] = @ + 1]
                                 /\ UNCHANGED <<pc, stateLock, envWriter, txn,
                                                result, errAt>>
    /\ UNCHANGED <<storeVars, loadVars, state, wpc, uuids, found, todo, dirs, handleCalls>>

\* as DumpCompleted, the loop never entered
DumpCompletedSkipped(d, out) ==
    /\ pc[d] = "completed"
    /\ out = "ok"
    /\ pc' = [pc EXCEPT ![d] = "indexes"]
    /\ pos' = [pos EXCEPT ![d] = 0]
    /\ todo' = [todo EXCEPT ![d] = uuids[d]]
    /\ UNCHANGED <<storeVars, loadVars, lockVars, wpc, uuids, found, txn, dataFile,
                   updateFiles, dirs, handleCalls, result, errAt>>

\* dump_completed, one turn of `for update in updates`
DumpCompleted(d, out) ==
    /\ pc[d] = "completed"
    /\ LET it == UpdatesIter(txn[d].updates)
       IN IF pos[d] = Len(it)
          THEN /\ out = "ok"
               /\ pc' = [pc EXCEPT ![d] = "indexes"]
               /\ pos' = [pos EXCEPT ![d] = 0]
               /\ todo' = [todo EXCEPT ![d] = uuids[d]]
               /\ UNCHANGED <<stateLock, envWriter, txn, result, errAt, dataFile>>
          ELSE LET e == it[pos[d] + 1]
                   line == ToJson(Entry(e.uuid, e.status, e.id, NoContent))
               IN CASE out = "ioerr" ->
                         /\ Fail(d)
                         /\ UNCHANGED <<pos, todo, dataFile>>
                    [] out # "ioerr" /\ ~Selected(d, e) ->
                         /\ out = "ok"
                         /\ pos' = [pos EXCEPT ![d] = @ + 1]
                         /\ UNCHANGED <<pc, stateLock, envWriter, txn, result, errAt,
                                        todo, dataFile>>
                    [] out = "writeerr" /\ Selected(d, e) ->
                         /\ dataFile' = [dataFile EXCEPT ![d] =
                                           Append(@, Truncated(line))]
                         /\ Fail(d)
                         /\ UNCHANGED <<pos, todo>>
                    [] OTHER ->
                         /\ dataFile' = [dataFile EXCEPT ![d] = Append(@, line)]
                         /\ pos' = [pos EXCEPT ![d] = @ + 1]
                         /\ UNCHANGED <<pc, stateLock, envWriter, txn, result, errAt,
                                        todo>>
    /\ UNCHANGED <<storeVars, loadVars, state, wpc, uuids, found, updateFiles, dirs, handleCalls>>

\* as DumpIndexesCall, the calls started one after the other without awaiting
\* the answer of the one before
DumpIndexesCallUnawaited(d, u) ==
    /\ pc[d] \in {"indexes", "await"}
    /\ u \in todo[d]
    /\ todo' = [todo EXCEPT ![d] = @ \ {u}]
    /\ handleCalls' = [handleCalls EXCEPT ![d] = Append(@, u)]
    /\ pc' = [pc EXCEPT ![d] = "await"]
    /\ UNCHANGED <<storeVars, loadVars, lockVars, wpc, uuids, found, txn, pos, dataFile,
                   updateFiles, dirs, result, errAt>>

\* dump_indexes: for uuid in uuids { handle.dump(*uuid, path).await?; }
\* the call of the index actor for the next uuid of the set, in whatever order
\* the HashSet yields them
DumpIndexesCall(d, u) ==
    /\ pc[d] = "indexes"
    /\ u \in todo[d]
    /\ todo' = [todo EXCEPT ![d] = @ \ {u}]
    /\ handleCalls' = [handleCalls EXCEPT ![d] = Append(@, u)]
    /\ pc' = [pc EXCEPT ![d] = "await"]
    /\ UNCHANGED <<storeVars, loadVars, lockVars, wpc, uuids, found, txn, pos, dataFile,
                   updateFiles, dirs, result, errAt>>

\* as DumpIndexesAwait, the error of the index actor dropped instead of
\* returned: let _ = handle.dump(*uuid, path).await;
DumpIndexesAwaitIgnored(d, ok) ==
    /\ pc[d] = "await"
    /\ pc' = [pc EXCEPT ![d] = "indexes"]
    /\ errAt' = [errAt EXCEPT ![d] = IF ok THEN @ ELSE "await"]
    /\ UNCHANGED <<storeVars, loadVars, lockVars, wpc, uuids, found, txn, pos, todo,
                   dataFile, updateFiles, dirs, handleCalls, result>>

\* the answer of the index actor, and `?` on it
DumpIndexesAwait(d, ok) ==
    /\ pc[d] = "await"
    /\ IF ok
       THEN /\ pc' = [pc EXCEPT ![d] = "indexes"]
            /\ UNCHANGED <<stateLock, envWriter, txn, result, errAt>>
       ELSE Fail(d)
    /\ UNCHANGED <<storeVars, loadVars, state, wpc, uuids, found, pos, todo, dataFile,
                   updateFiles, dirs, handleCalls>>

\* as DumpSwapIdle, without waiting for dump_indexes to have visited every uuid
DumpSwapIdleEarly(d) ==
    /\ pc[d] = "indexes"
    /\ state' = "Idle"
    /\ pc' = [pc EXCEPT ![d] = "idle"]
    /\ UNCHANGED <<storeVars, loadVars, stateLock, envWriter, wpc, uuids, found, txn, pos, todo,
                   dataFile, updateFiles, dirs, handleCalls, result, errAt>>

\* state_lock.swap(State::Idle), once dump_indexes has visited every uuid
DumpSwapIdle(d) ==
    /\ pc[d] = "indexes"
    /\ todo[d] = {}
    /\ state' = "Idle"
    /\ pc' = [pc EXCEPT ![d] = "idle"]
    /\ UNCHANGED <<storeVars, loadVars, stateLock, envWriter, wpc, uuids, found, txn, pos, todo,
                   dataFile, updateFiles, dirs, handleCalls, result, errAt>>

\* Ok(())
DumpReturn(d) ==
    /\ pc[d] = "idle"
    /\ Return(d, "Ok")
    /\ UNCHANGED errAt
    /\ UNCHANGED <<storeVars, loadVars, state, wpc, uuids, found, pos, todo, dataFile,
                   updateFiles, dirs, handleCalls>>

\* --------------------------------------------------------------- load_dump
\* dst.join("updates/").join("update_files/")
DstUpdateFilesPath == <<"dst", "updates", "update_files">>

\* as HasContentPath, no update taken to carry a content reference
HasContentPathNever(update) == FALSE

\* update.content_path_mut(): the content of an Enqueued update, if it has one
HasContentPath(update) == update.tag = "Enqueued" /\ update.content # NoContent

\* store.register_raw_updates(&mut wtxn, update, uuid): the update is put as it
\* is, under its own update id, after the ones put before it
RegisterRawUpdates(w, update, uuid) == Append(w, [uuid |-> uuid, update |-> update])

\* the pending collection of a store made of raw updates, and its completed one
StorePending(w) ==
    { [gid |-> i - 1, uuid |-> w[i].uuid, id |-> w[i].update.id,
       content |-> w[i].update.content] :
        i \in { j \in 1..Len(w) : w[j].update.tag = "Enqueued" } }
StoreUpdates(w) ==
    { [uuid |-> w[i].uuid, id |-> w[i].update.id, status |-> w[i].update.tag] :
        i \in { j \in 1..Len(w) : w[j].update.tag # "Enqueued" } }

\* an error leaves load_dump through `?`: wtxn is dropped, that is aborted
LoadFail(err) ==
    /\ lpc' = "done"
    /\ lresult' = "Err"
    /\ lerr' = err
    /\ wtxn' = <<>>

\* load_dump(src, dst, db_size), src the path of a dump that has returned
LoadDump(d) ==
    /\ lpc = "start"
    /\ pc[d] = "done"
    /\ lsrc' = d
    /\ lpc' = "dirs"
    /\ UNCHANGED <<storeVars, lockVars, wpc, dumpVars, lpos, wtxn, newStore,
                   dstFiles, lresult, lerr>>

\* create_dir_all(&dst_updates_path)?; create_dir_all(&dst_update_files_path)?;
\* let (store, _) = UpdateStore::new(options, &dst_updates_path)?;
LoadNewStore(ok) ==
    /\ lpc = "dirs"
    /\ IF ok
       THEN /\ lpc' = "open"
            /\ UNCHANGED <<lresult, lerr, wtxn>>
       ELSE LoadFail("io")
    /\ UNCHANGED <<storeVars, lockVars, wpc, dumpVars, lsrc, lpos, newStore,
                   dstFiles>>

\* let update_data = File::open(&src_update_path.join("data.jsonl"))?;
LoadOpenData(ok) ==
    /\ lpc = "open"
    /\ IF ok /\ "data.jsonl" \in dirs[lsrc]
       THEN /\ lpc' = "wtxn"
            /\ UNCHANGED <<lresult, lerr, wtxn>>
       ELSE LoadFail("io")
    /\ UNCHANGED <<storeVars, lockVars, wpc, dumpVars, lsrc, lpos, newStore,
                   dstFiles>>

\* as LoadWriteTxn, the write transaction taken on the environment of the live
\* store, which gives it once no other writer holds it
LoadWriteTxnOnLiveEnv(ok) ==
    /\ envWriter = NoOne
    /\ lpc = "wtxn"
    /\ IF ok
       THEN /\ lpc' = "loop"
            /\ wtxn' = <<>>
            /\ lpos' = 0
            /\ UNCHANGED <<lresult, lerr>>
       ELSE LoadFail("io") /\ UNCHANGED lpos
    /\ UNCHANGED <<storeVars, lockVars, wpc, dumpVars, lsrc, newStore, dstFiles>>

\* let mut wtxn = store.env.write_txn()?;
LoadWriteTxn(ok) ==
    /\ lpc = "wtxn"
    /\ IF ok
       THEN /\ lpc' = "loop"
            /\ wtxn' = <<>>
            /\ lpos' = 0
            /\ UNCHANGED <<lresult, lerr>>
       ELSE LoadFail("io") /\ UNCHANGED lpos
    /\ UNCHANGED <<storeVars, lockVars, wpc, dumpVars, lsrc, newStore, dstFiles>>

LoadOutcomes == {"ok", "readerr", "ioerr"}

\* one turn of the loop of load_dump.  out is what the environment does to this
\* turn: "readerr" fails read_line, "ioerr" fails the copy or the insertion.
LoadLine(out) ==
    /\ lpc = "loop"
    /\ LET data == dataFile[lsrc]
       IN CASE out = "readerr" ->
                 \* _ => break
                 /\ lpc' = "commit"
                 /\ lerr' = "read"
                 /\ UNCHANGED <<lpos, wtxn, dstFiles, lresult>>
            [] out # "readerr" /\ lpos = Len(data) ->
                 \* Ok(0) => break
                 /\ out = "ok"
                 /\ lpc' = "commit"
                 /\ UNCHANGED <<lpos, wtxn, dstFiles, lresult, lerr>>
            [] out # "readerr" /\ lpos < Len(data)
                 /\ ~WellFormed(data[lpos + 1]) ->
                 /\ out = "ok"
                 /\ LoadFail("json")
                 /\ UNCHANGED <<lpos, dstFiles>>
            [] OTHER ->
                 LET e == FromJson(data[lpos + 1])
                     path == e.update.content
                     copies == HasContentPath(e.update)
                     update == IF copies
                               THEN [e.update EXCEPT
                                       !.content = Join(DstUpdateFilesPath, path)]
                               ELSE e.update
                 IN IF out = "ioerr" \/ (copies /\ ~Exists(updateFiles[lsrc], path))
                    THEN /\ LoadFail("io")
                         /\ UNCHANGED <<lpos, dstFiles>>
                    ELSE /\ dstFiles' =
                              IF copies
                              THEN CopyInto(dstFiles, Join(DstUpdateFilesPath, path),
                                            Bytes(updateFiles[lsrc], path))
                              ELSE dstFiles
                         /\ wtxn' = RegisterRawUpdates(wtxn, update, e.uuid)
                         /\ lpos' = lpos + 1
                         /\ UNCHANGED <<lpc, lresult, lerr>>
    /\ UNCHANGED <<storeVars, lockVars, wpc, dumpVars, lsrc, newStore>>

\* wtxn.commit()?; Ok(())
LoadCommit(ok) ==
    /\ lpc = "commit"
    /\ IF ok
       THEN /\ newStore' = wtxn
            /\ wtxn' = <<>>
            /\ lpc' = "done"
            /\ lresult' = "Ok"
            /\ UNCHANGED lerr
       ELSE LoadFail("io") /\ UNCHANGED newStore
    /\ UNCHANGED <<storeVars, lockVars, wpc, dumpVars, lsrc, lpos, dstFiles>>

\* ---------------------------------------------------------- specifications
WriterNext(Cs) ==
    \/ WriterRequest
    \/ WriterBegin
    \/ \E u \in Uuids, c \in Cs : WriterRegister(u, c)
    \/ \E st \in Statuses : WriterProcess(st)

DumpNext(D, Us) ==
    \/ \E d \in D, U \in Us : DumpStateWrite(d, U)
    \/ \E d \in D : DumpSwapDumping(d)
    \/ \E d \in D, ok \in BOOLEAN : DumpWriteTxn(d, ok)
    \/ \E d \in D, ok \in BOOLEAN : DumpCreateDir(d, ok)
    \/ \E d \in D, ok \in BOOLEAN : DumpCreateDataFile(d, ok)
    \/ \E d \in D, ok \in BOOLEAN : DumpCreateUpdateFiles(d, ok)
    \/ \E d \in D, out \in Outcomes : DumpPending(d, out)
    \/ \E d \in D, out \in Outcomes : DumpCompleted(d, out)
    \/ \E d \in D, u \in Uuids : DumpIndexesCall(d, u)
    \/ \E d \in D, ok \in BOOLEAN : DumpIndexesAwait(d, ok)
    \/ \E d \in D : DumpSwapIdle(d)
    \/ \E d \in D : DumpReturn(d)

LoadNext ==
    \/ \E d \in Dumps : LoadDump(d)
    \/ \E ok \in BOOLEAN : LoadNewStore(ok)
    \/ \E ok \in BOOLEAN : LoadOpenData(ok)
    \/ \E ok \in BOOLEAN : LoadWriteTxn(ok)
    \/ \E out \in LoadOutcomes : LoadLine(out)
    \/ \E ok \in BOOLEAN : LoadCommit(ok)

FirstDump == <<"dump", 1>>

\* one dump of the live store, updates of every kind, and the load of its bundle
Next ==
    \/ WriterNext(Contents)
    \/ DumpNext({FirstDump}, SUBSET Uuids)
    \/ LoadNext

Spec == Init /\ [][Next]_vars

\* NumDumps calls of dump issued at any time on the same store, each for every
\* index, next to the writer
NextConc ==
    \/ WriterNext({NoContent})
    \/ DumpNext(Dumps, {Uuids})

SpecConc == Init /\ [][NextConc]_vars

\* the bundle of a dump that has returned loaded into a fresh store while the
\* live store goes on with its writer and its other dumps
NextLoadConc ==
    \/ WriterRequest
    \/ WriterBegin
    \/ \E u \in Uuids : WriterRegister(u, NoContent)
    \/ WriterProcess("Processed")
    \/ DumpNext(Dumps, {Uuids})
    \/ LoadNext

SpecLoadConc == Init /\ [][NextLoadConc]_vars

\* ================================================================== claims
\* positions of dump between the acquisition of the state lock and the return
Running == {"locked", "dumping", "txn", "updates", "data", "pending",
            "completed", "indexes", "await", "idle"}
\* positions of dump inside the pending, completed and index-content passes
Passes == {"pending", "completed", "indexes", "await"}

\* C1: whichever way dump returns, success or error, the state is Idle at the
\* moment it has returned.
C1_IdleOnEveryExit ==
    [][\A d \in Dumps : (pc[d] # "done" /\ pc'[d] = "done") => state' = "Idle"]_vars

\* C2: a dump that finds the state already Dumping when it takes the gate goes no
\* further: it opens no transaction, writes no record and calls no index actor.
C2_NoDumpFromDumping ==
    \A d \in Dumps :
        found[d] = "Dumping" =>
            /\ ~txn[d].open
            /\ dirs[d] = {}
            /\ dataFile[d] = <<>>
            /\ handleCalls[d] = <<>>

\* C3: of the dump calls issued on the store, at most one is at any time between
\* the acquisition of the state lock and its return.
C3_OneDumpInFlight ==
    Cardinality({ d \in Dumps : pc[d] \in Running }) <= 1

\* a dump is in one of its passes while another call waits for the state lock,
\* and a dump runs its passes after another one has returned
C3_Witness ==
    \E d, o \in Dumps :
        /\ d # o
        /\ pc[d] \in Passes
        /\ result[o] = "Ok"
        /\ dataFile[d] # <<>>

\* ---- what a record is, whatever the path of its content: uuid, update id,
\* status and the bytes of its content
ContentBytes(fs, c) == IF Exists(fs, c) THEN <<Bytes(fs, c)>> ELSE <<0>>

OriginalRecords(d) ==
    { [uuid |-> e.uuid, id |-> e.id, tag |-> "Enqueued",
       bytes |-> IF e.content = NoContent THEN <<>>
                 ELSE ContentBytes(files, e.content)] :
        e \in { x \in txn[d].pending : x.uuid \in uuids[d] } }
    \cup
    { [uuid |-> e.uuid, id |-> e.id, tag |-> e.status, bytes |-> <<>>] :
        e \in { x \in txn[d].updates : x.uuid \in uuids[d] } }

LoadedRecords ==
    { [uuid |-> newStore[i].uuid, id |-> newStore[i].update.id,
       tag |-> newStore[i].update.tag,
       bytes |-> IF HasContentPath(newStore[i].update)
                 THEN ContentBytes(dstFiles, newStore[i].update.content)
                 ELSE <<>>] : i \in 1..Len(newStore) }

\* C4: round trip.  After a successful dump of U and a successful load of its
\* bundle, the records of the new store are the records of U the dump read: same
\* uuid, update id, status and content bytes.
C4_RoundTrip ==
    (lresult = "Ok" /\ result[lsrc] = "Ok") =>
        LoadedRecords = OriginalRecords(lsrc)

\* C5: filtering.  Every line of data.jsonl carries a uuid of U, every file of
\* update_files/ is the content of a pending record of U, and every record
\* load_dump registers has a uuid of U.
C5_Filtering ==
    /\ \A d \in Dumps :
          /\ \A i \in 1..Len(dataFile[d]) : dataFile[d][i][1] \in uuids[d]
          /\ \A f \in updateFiles[d] :
                \E e \in txn[d].pending :
                    /\ e.uuid \in uuids[d]
                    /\ e.content # NoContent
                    /\ HasFileName(e.content)
                    /\ f = <<DumpUpdateFileName(e.content), Bytes(files, e.content)>>
    /\ \A i \in 1..Len(wtxn) : wtxn[i].uuid \in uuids[lsrc]
    /\ \A i \in 1..Len(newStore) : newStore[i].uuid \in uuids[lsrc]

\* a bundle dumped and loaded with success from a store that held, when dumped,
\* a pending record with content outside U and a record of U
C5_Witness ==
    /\ lresult = "Ok"
    /\ result[lsrc] = "Ok"
    /\ newStore # <<>>
    /\ \E e \in txn[lsrc].pending :
          e.uuid \notin uuids[lsrc] /\ Exists(files, e.content)

\* the pending entry a whole line of data.jsonl was written from
PendingOf(d, line) ==
    CHOOSE e \in txn[d].pending : e.uuid = line[1] /\ e.id = line[3]

\* C6: ordering.  In data.jsonl the pending records follow the key order of the
\* pending collection, no pending record follows a completed one, and what
\* load_dump registers is, one by one and in this order, the lines it has read.
C6_Ordering ==
    /\ \A d \in Dumps : \A i, j \in 1..Len(dataFile[d]) :
          i < j =>
            LET a == dataFile[d][i]
                b == dataFile[d][j]
            IN /\ a[2] # "Enqueued" => b[2] # "Enqueued"
               /\ (a[2] = "Enqueued" /\ b[2] = "Enqueued" /\ WellFormed(b)) =>
                     PendingKeyLess(PendingOf(d, a), PendingOf(d, b))
    /\ \A w \in {wtxn, newStore} :
          /\ Len(w) <= lpos
          /\ \A k \in 1..Len(w) :
                LET e == FromJson(dataFile[lsrc][k])
                IN /\ w[k].uuid = e.uuid
                   /\ w[k].update.id = e.update.id
                   /\ w[k].update.tag = e.update.tag
    /\ \A a, b \in StorePending(newStore) :
          (\E i, j \in 1..Len(dataFile[lsrc]) :
              /\ i < j
              /\ WellFormed(dataFile[lsrc][j])
              /\ <<a.uuid, a.id>> = <<dataFile[lsrc][i][1], dataFile[lsrc][i][3]>>
              /\ <<b.uuid, b.id>> = <<dataFile[lsrc][j][1], dataFile[lsrc][j][3]>>)
          => PendingKeyLess(a, b)

\* a bundle of two lines starting with a pending record, dumped and loaded
\* with success
C6_Witness ==
    /\ lresult = "Ok"
    /\ result[lsrc] = "Ok"
    /\ Len(dataFile[lsrc]) >= 2
    /\ dataFile[lsrc][1][2] = "Enqueued"
    /\ Len(newStore) = Len(dataFile[lsrc])

\* C7: a load that has met an error (a malformed line, a missing file, an I/O
\* or transaction error, an error of read_line) returns an error and commits
\* nothing.
C7_LoadAtomicOnFailure ==
    lerr # "none" => (lresult # "Ok" /\ newStore = <<>>)

\* C8: the transaction of dump is a read-only one: while a dump is in its
\* passes, a writer that asks for the write transaction finds it free.
C8_WriterNotBlocked ==
    \A d \in Dumps :
        (pc[d] \in Passes /\ wpc = "waiting") => envWriter = NoOne

\* C8 as amended: the transaction of dump is the write transaction of the
\* environment; while a dump is in its passes it holds it, no writer is inside
\* a write transaction, and the two collections do not change.
C8_WriterExcluded ==
    [][\A d \in Dumps :
          pc[d] \in Passes =>
            /\ envWriter = d
            /\ wpc # "txn"
            /\ UNCHANGED <<pending_queue, updates>>]_vars

\* a dump is in one of its passes while the writer waits for the write
\* transaction
C8_Witness ==
    \E d \in Dumps : pc[d] \in Passes /\ wpc = "waiting"

\* the lines of the records of U in what the transaction of dump d read when
\* it was opened
SnapshotLines(d) ==
    { <<e.uuid, "Enqueued", e.id>> :
        e \in { x \in txn[d].pending : x.uuid \in uuids[d] } }
    \cup
    { <<e.uuid, e.status, e.id>> :
        e \in { x \in txn[d].updates : x.uuid \in uuids[d] } }

\* C9: point in time.  The records of data.jsonl of a successful dump are the
\* records of U of the store as it was when the transaction was opened, each
\* once, and none both as pending and as completed.
C9_PointInTime ==
    \A d \in Dumps :
        result[d] = "Ok" =>
            /\ { SubSeq(dataFile[d][i], 1, 3) : i \in 1..Len(dataFile[d]) }
                  = SnapshotLines(d)
            /\ Len(dataFile[d]) = Cardinality(SnapshotLines(d))
            /\ \A i, j \in 1..Len(dataFile[d]) :
                  (dataFile[d][i][1] = dataFile[d][j][1]
                   /\ dataFile[d][i][3] = dataFile[d][j][3]) => i = j

\* a dump has succeeded on a store that held records of U, and the writer, which
\* waited for the dump, has since moved a record the dump wrote as pending
C9_Witness ==
    \E d \in Dumps :
        /\ result[d] = "Ok"
        /\ \E e \in txn[d].pending, c \in updates :
              /\ e.uuid \in uuids[d]
              /\ c.uuid = e.uuid /\ c.id = e.id
        /\ \E i \in 1..Len(dataFile[d]) : dataFile[d][i][2] = "Enqueued"

\* C10: fail fast.  Once a step of dump has failed, dump has returned an error,
\* data.jsonl gets no further record and the index actor no further call; a
\* failure before the index-content pass means the index actor was never called.
C10_FailFast ==
    [][\A d \in Dumps :
          /\ errAt'[d] # "none" =>
                /\ pc'[d] = "done"
                /\ result'[d] = "Err"
                /\ errAt'[d] # "await" => handleCalls'[d] = <<>>
          /\ errAt[d] # "none" =>
                /\ dataFile'[d] = dataFile[d]
                /\ handleCalls'[d] = handleCalls[d]]_vars

\* the index actor has failed for one uuid of U while another one was still to
\* be visited, and a dump has failed in its pending pass before its last entry
C10_Witness ==
    \E d \in Dumps :
        \/ errAt[d] = "await" /\ todo[d] # {}
        \/ errAt[d] = "pending" /\ pos[d] + 1 < Cardinality(txn[d].pending)

\* C11: a dump that succeeds has called the index actor once for each uuid of U,
\* also for one without any record, and for no other uuid; a call starts only
\* when the passes over the two collections are over and no call is awaited; with
\* U empty there is no call, and data.jsonl and update_files/ exist and are empty.
C11_OneCallPerUuid ==
    [][\A d \in Dumps :
          /\ result'[d] = "Ok" =>
                /\ Len(handleCalls'[d]) = Cardinality(uuids'[d])
                /\ { handleCalls'[d][i] : i \in 1..Len(handleCalls'[d]) } = uuids'[d]
                /\ uuids'[d] = {} =>
                      /\ handleCalls'[d] = <<>>
                      /\ {"data.jsonl", "update_files"} \subseteq dirs'[d]
                      /\ dataFile'[d] = <<>>
                      /\ updateFiles'[d] = {}
          /\ handleCalls'[d] # handleCalls[d] =>
                /\ pc[d] = "indexes"
                /\ pc'[d] = "await"
                /\ Len(handleCalls'[d]) = Len(handleCalls[d]) + 1
          /\ handleCalls[d] # <<>> => dataFile'[d] = dataFile[d]]_vars

\* a dump of two uuids has succeeded, one of them without any record in the store
C11_Witness ==
    \E d \in Dumps :
        /\ result[d] = "Ok"
        /\ Len(handleCalls[d]) = 2
        /\ dataFile[d] # <<>>
        /\ \E u \in uuids[d] :
              \A e \in txn[d].pending \cup txn[d].updates : e.uuid # u

\* C12: the line written for a pending record of U with content at path p carries
\* the file name of p alone, a path of one component, and update_files/ holds a
\* file of that name; the line of a pending record without content carries no
\* content, and every file of update_files/ is the copy made for a pending
\* record of U that has content.
C12_ExternalizedName ==
    \A d \in Dumps :
        /\ \A i \in 1..Len(dataFile[d]) :
              LET line == dataFile[d][i]
              IN (WellFormed(line) /\ line[2] = "Enqueued") =>
                    LET e == PendingOf(d, line)
                    IN /\ e \in txn[d].pending
                       /\ e.uuid \in uuids[d]
                       /\ IF e.content = NoContent
                          THEN line[4] = NoContent
                          ELSE /\ line[4] = <<FileName(e.content)>>
                               /\ Len(line[4]) = 1
                               /\ Exists(updateFiles[d], line[4])
        /\ \A f \in updateFiles[d] :
              /\ Len(f[1]) = 1
              /\ \E e \in txn[d].pending :
                    /\ e.uuid \in uuids[d]
                    /\ e.content # NoContent
                    /\ HasFileName(e.content)
                    /\ f[1] = <<FileName(e.content)>>

\* a dump has succeeded whose data.jsonl holds the line of a record with content
\* kept in a directory and the line of a pending record without content
C12_Witness ==
    \E d \in Dumps :
        /\ result[d] = "Ok"
        /\ \E i, j \in 1..Len(dataFile[d]) :
              /\ dataFile[d][i][2] = "Enqueued"
              /\ dataFile[d][j][2] = "Enqueued"
              /\ dataFile[d][i][4] = <<"x">>
              /\ Len(PendingOf(d, dataFile[d][i]).content) = 2
              /\ dataFile[d][j][4] = NoContent

\* the pending record dump_pending is about to write is one of U whose content
\* reference is a path without a file name
AtBadPath(d) ==
    /\ pc[d] = "pending"
    /\ pos[d] < Len(PendingIter(txn[d].pending))
    /\ LET e == PendingIter(txn[d].pending)[pos[d] + 1]
       IN /\ e.uuid \in uuids[d]
          /\ e.content # NoContent
          /\ ~HasFileName(e.content)

\* C13: when the content reference of the pending record to write has no file
\* name, the step of the dump returns an error raised in the pending pass,
\* copies nothing into update_files/ and writes no line to data.jsonl.
C13_BadPathRejected ==
    [][\A d \in Dumps :
          (AtBadPath(d) /\ <<pc[d], pos[d]>>' # <<pc[d], pos[d]>>) =>
              /\ pc'[d] = "done"
              /\ result'[d] = "Err"
              /\ errAt'[d] = "pending"
              /\ updateFiles'[d] = updateFiles[d]
              /\ dataFile'[d] = dataFile[d]
              /\ state' = state]_vars

\* a dump has returned an error from the pending pass, stopped at a record of U
\* whose content reference has no file name, after it wrote another record
C13_Witness ==
    \E d \in Dumps :
        /\ result[d] = "Err"
        /\ errAt[d] = "pending"
        /\ dataFile[d] # <<>>
        /\ \A i \in 1..Len(dataFile[d]) : WellFormed(dataFile[d][i])
        /\ pos[d] < Len(PendingIter(txn[d].pending))
        /\ LET e == PendingIter(txn[d].pending)[pos[d] + 1]
           IN e.uuid \in uuids[d] /\ e.content = Root

\* load_dump has been called and has not returned
Loading == lpc \in {"dirs", "open", "wtxn", "loop", "commit"}

\* C14: a step of load_dump leaves the state, its lock, the writer slot of the
\* live environment, the two collections of the live store and everything a
\* dump owns as they are, the calls made to the index actor included; whatever
\* the state and whoever holds the lock or the live write transaction, a load
\* that has not returned can take its next step, and so can a dump that is in
\* its passes while a load goes on.
C14_LoadApartFromLiveStore ==
    /\ [](Loading => ENABLED LoadNext)
    /\ [](\A d \in Dumps :
            (Loading /\ pc[d] \in Passes) => ENABLED DumpNext({d}, {Uuids}))
    /\ [][loadVars' # loadVars =>
            UNCHANGED <<storeVars, lockVars, wpc, dumpVars>>]_vars

\* load_dump has registered a line of the bundle of one dump while another dump
\* of the live store holds the state lock and its transaction, in state Dumping
C14_Witness ==
    /\ lpc = "loop"
    /\ lpos >= 1
    /\ wtxn # <<>>
    /\ state = "Dumping"
    /\ \E d \in Dumps :
          /\ d # lsrc
          /\ pc[d] \in Passes
          /\ stateLock = d
          /\ envWriter = d

\* C15: a dump that has its transaction open, or holds the write transaction of
\* the environment, holds the state lock and has swapped the state; a dump that
\* waits for the state lock has no transaction; the transaction is opened by the
\* holder of the lock, after the swap, with the state Dumping.
C15_LockBeforeTxn ==
    /\ [](\A d \in Dumps :
            /\ (txn[d].open \/ envWriter = d) =>
                  /\ stateLock = d
                  /\ found[d] # "none"
                  /\ pc[d] \notin {"start", "locked", "dumping"}
            /\ pc[d] = "start" => (~txn[d].open /\ envWriter # d))
    /\ [][\A d \in Dumps :
            (~txn[d].open /\ txn'[d].open) =>
                /\ stateLock = d
                /\ state = "Dumping"
                /\ pc[d] = "dumping"
                /\ envWriter = NoOne
                /\ envWriter' = d]_vars

\* a dump holds the lock and its transaction while another call of dump waits
\* for the lock and the writer waits for the write transaction
C15_Witness ==
    \E d, o \in Dumps :
        /\ txn[d].open
        /\ envWriter = d
        /\ stateLock = d
        /\ pc[o] = "start"
        /\ wpc = "waiting"

\* C16: a load that has returned Ok has committed one record for each line of
\* data.jsonl, in the order of the lines and each with the uuid and the id read
\* from its line; the new store holds no record until then.
C16_OneRecordPerLine ==
    /\ lresult = "Ok" =>
          /\ lpos = Len(dataFile[lsrc])
          /\ Len(newStore) = Len(dataFile[lsrc])
          /\ \A k \in 1..Len(newStore) :
                /\ newStore[k].uuid = dataFile[lsrc][k][1]
                /\ newStore[k].update.id = dataFile[lsrc][k][3]
    /\ lresult # "Ok" => newStore = <<>>

\* C17: at the end of a dump that has succeeded, for every pending record of U
\* with content, the file of update_files/ that the line of the record names
\* holds the bytes of the source file of that record.
C17_ContentFidelity ==
    \A d \in Dumps :
        result[d] = "Ok" =>
            \A e \in txn[d].pending :
                (e.uuid \in uuids[d] /\ e.content # NoContent) =>
                    /\ Exists(updateFiles[d], DumpUpdateFileName(e.content))
                    /\ Bytes(updateFiles[d], DumpUpdateFileName(e.content))
                          = Bytes(files, e.content)

\* C18: for every line load_dump has read and registered, in its transaction
\* and in the new store once committed: when the line carries a content
\* reference r, the record registered refers to update_files/r under the
\* destination, and that file exists there with the bytes of update_files/r of
\* the bundle; when it carries none, the record is the one of the line; and the
\* destination holds no file but the copies made for those lines.
C18_ContentCopiedOnLoad ==
    /\ \A w \in {wtxn, newStore} : \A k \in 1..Len(w) :
          LET e == FromJson(dataFile[lsrc][k])
              r == e.update.content
          IN /\ w[k].uuid = e.uuid
             /\ IF e.update.tag = "Enqueued" /\ r # NoContent
                THEN /\ w[k].update =
                          [e.update EXCEPT !.content = Join(DstUpdateFilesPath, r)]
                     /\ Exists(dstFiles, Join(DstUpdateFilesPath, r))
                     /\ Bytes(dstFiles, Join(DstUpdateFilesPath, r))
                           = Bytes(updateFiles[lsrc], r)
                ELSE w[k].update = e.update
    /\ \A f \in dstFiles :
          \E k \in 1..lpos :
              LET e == FromJson(dataFile[lsrc][k])
              IN /\ e.update.tag = "Enqueued"
                 /\ e.update.content # NoContent
                 /\ f = <<Join(DstUpdateFilesPath, e.update.content),
                          Bytes(updateFiles[lsrc], e.update.content)>>

\* a load has returned Ok with a record whose content was copied and, after
\* it, a pending record without content
C18_Witness ==
    /\ lresult = "Ok"
    /\ lerr = "none"
    /\ dstFiles # {}
    /\ \E i, j \in 1..Len(newStore) :
          /\ i < j
          /\ newStore[i].update.content = Join(DstUpdateFilesPath, <<"x">>)
          /\ newStore[j].update.tag = "Enqueued"
          /\ newStore[j].update.content = NoContent

\* C19: a step of a dump changes neither the pending collection, nor the
\* completed collection, nor a content file of the live store; while the
\* transaction of a dump is open, and when the dump returns, with Ok or with an
\* error, the two collections hold the records they held when the transaction
\* was opened, content references as they were, and every content file a line of
\* data.jsonl was written from is still in its place.
C19_DumpReadOnly ==
    /\ [](\A d \in Dumps :
            /\ txn[d].open =>
                  (pending_queue = txn[d].pending /\ updates = txn[d].updates)
            /\ \A i \in 1..Len(dataFile[d]) :
                  LET line == dataFile[d][i]
                  IN (/\ WellFormed(line)
                      /\ line[2] = "Enqueued"
                      /\ PendingOf(d, line).content # NoContent)
                        => Exists(files, PendingOf(d, line).content))
    /\ [][\A d \in Dumps :
            <<pc[d], pos[d], txn[d], dataFile[d], updateFiles[d]>>'
                  # <<pc[d], pos[d], txn[d], dataFile[d], updateFiles[d]>>
            => /\ UNCHANGED <<pending_queue, updates, files>>
               /\ (txn[d].open /\ pc'[d] = "done") =>
                     (pending_queue' = txn[d].pending /\ updates' = txn[d].updates)]_vars

\* a dump has returned after it wrote the line of a record under the file name
\* of its content, and the pending collection still holds that record with the
\* path of its content
C19_Witness ==
    \E d \in Dumps :
        /\ pc[d] = "done"
        /\ \E i \in 1..Len(dataFile[d]) :
              /\ WellFormed(dataFile[d][i])
              /\ dataFile[d][i][2] = "Enqueued"
              /\ dataFile[d][i][4] = <<"x">>
              /\ \E e \in pending_queue :
                    /\ e.uuid = dataFile[d][i][1]
                    /\ e.id = dataFile[d][i][3]
                    /\ Len(e.content) = 2
                    /\ Exists(files, e.content)

\* the positions of dump between the opening of its transaction and the end of
\* dump_indexes
InProgress == {"txn", "updates", "data", "pending", "completed", "indexes", "await"}

\* C20 as stated: whenever a dump has its transaction open, is in one of its
\* two passes over the collections, or awaits the index actor, the state is
\* Dumping.
C20_DumpingWhileTxnOpen ==
    \A d \in Dumps :
        (txn[d].open \/ pc[d] \in {"pending", "completed", "await"}) =>
            state = "Dumping"

\* C20, amended: from the opening of the transaction to the answer of the last
\* call to the index actor the state is Dumping and the transaction is open; a
\* dump whose transaction is open with the state Idle has swapped the state
\* back and has only to return; the state goes from Dumping to Idle in a step
\* of a dump that holds the lock, has called the index actor for every uuid of
\* U and awaits none of the calls.
C20_DumpingUntilLastCall ==
    /\ [](\A d \in Dumps :
            /\ pc[d] \in InProgress => (state = "Dumping" /\ txn[d].open)
            /\ (txn[d].open /\ state # "Dumping") =>
                  (pc[d] = "idle" /\ stateLock = d /\ todo[d] = {}))
    /\ [][(state = "Dumping" /\ state' = "Idle") =>
            \E d \in Dumps :
                /\ stateLock = d
                /\ pc[d] = "indexes"
                /\ pc'[d] = "idle"
                /\ todo[d] = {}
                /\ Len(handleCalls[d]) = Cardinality(uuids[d])
                /\ txn'[d].open]_vars

\* a dump has swapped the state back to Idle after its two calls to the index
\* actor and has not returned: its transaction is open, the lock is its own,
\* and another call of dump waits
C20_Witness ==
    \E d, o \in Dumps :
        /\ pc[d] = "idle"
        /\ state = "Idle"
        /\ txn[d].open
        /\ envWriter = d
        /\ Len(handleCalls[d]) = 2
        /\ pc[o] = "start"

====
